---- MODULE Spec2Model ----
(***************************************************************************)
(* AccessCheck (src/main.py): the checkers, the helpers they use and the   *)
(* runner `analyze`, as a state machine.                                    *)
(*                                                                         *)
(* Representation.                                                         *)
(*  - A Python str that the code inspects character by character (strip,   *)
(*    lower, len, slicing) is a sequence of one-character strings.         *)
(*  - Optional[x] is <<>> for None and <<x>> for a value.                  *)
(*  - A str the code only builds (f-strings, literals) is a record         *)
(*    [fmt, nums, text]: the literal with {} holes, the integers and the   *)
(*    strings interpolated into it.                                        *)
(*  - A list of elements the code only iterates or slices from the front   *)
(*    (find_all results) is a sequence of runs [el, n]: n consecutive      *)
(*    copies of element el, in document order.                             *)
(***************************************************************************)
EXTENDS Integers, Sequences, FiniteSets, TLC

VARIABLES
    url,      \* analyze's argument
    soup,     \* the parsed document (BeautifulSoup tree), as the queries see it
    raises,   \* environment: for each check of `checks`, None or the exception its call raises
    pc,       \* position in analyze / in the call under test
    idx,      \* how many entries of `checks` the for loop of analyze has consumed
    cards,    \* analyze's local list `cards`
    report,   \* Optional[Report]: analyze's return value
    arg,      \* argument of a helper called on its own
    ret,      \* Optional return value of that helper
    rendered  \* the calls made on the returned Report so far, each with its result

vars == <<url, soup, raises, pc, idx, cards, report, arg, ret, rendered>>

----------------------------------------------------------------------------
(* Python values *)

None == <<>>
Some(x) == <<x>>

F(fmt, nums, text) == [fmt |-> fmt, nums |-> nums, text |-> text]
S(lit) == F(lit, <<>>, <<>>)

Whitespace == {" ", "\n"}

UpperChars == <<"A","B","C","D","E","F","G","H","I","J","K","L","M",
                "N","O","P","Q","R","S","T","U","V","W","X","Y","Z">>
LowerChars == <<"a","b","c","d","e","f","g","h","i","j","k","l","m",
                "n","o","p","q","r","s","t","u","v","w","x","y","z">>

LowerChar(c) ==
    IF \E k \in 1..Len(UpperChars) : UpperChars[k] = c
    THEN LowerChars[CHOOSE k \in 1..Len(UpperChars) : UpperChars[k] = c]
    ELSE c

UpperChar(c) ==
    IF \E k \in 1..Len(LowerChars) : LowerChars[k] = c
    THEN UpperChars[CHOOSE k \in 1..Len(LowerChars) : LowerChars[k] = c]
    ELSE c

\* str.lower()
Lower(s) == [k \in 1..Len(s) |-> LowerChar(s[k])]

RECURSIVE LStrip(_)
LStrip(s) == IF s # <<>> /\ Head(s) \in Whitespace THEN LStrip(Tail(s)) ELSE s

RECURSIVE RStrip(_)
RStrip(s) ==
    IF s # <<>> /\ s[Len(s)] \in Whitespace THEN RStrip(SubSeq(s, 1, Len(s) - 1)) ELSE s

\* str.strip()
Strip(s) == RStrip(LStrip(s))

\* s[:k]
Take(s, k) == SubSeq(s, 1, IF Len(s) < k THEN Len(s) ELSE k)

\* a str of n copies of character c
RECURSIVE Repeat(_, _)
Repeat(c, n) == IF n = 0 THEN <<>> ELSE <<c>> \o Repeat(c, n - 1)

----------------------------------------------------------------------------
(* Lists as runs *)

Run(el, n) == [el |-> el, n |-> n]

\* len(xs)
RECURSIVE RunsLen(_)
RunsLen(runs) == IF runs = <<>> THEN 0 ELSE Head(runs).n + RunsLen(Tail(runs))

\* xs[:k]
RECURSIVE RunsTake(_, _)
RunsTake(runs, k) ==
    IF runs = <<>> \/ k <= 0 THEN <<>>
    ELSE IF Head(runs).n = 0 THEN RunsTake(Tail(runs), k)
    ELSE IF Head(runs).n >= k THEN <<Run(Head(runs).el, k)>>
    ELSE <<Head(runs)>> \o RunsTake(Tail(runs), k - Head(runs).n)

\* the distinct elements of xs
RunsElems(runs) == {runs[k].el : k \in 1..Len(runs)}

\* sum(1 for x in xs if x in sel)
RECURSIVE RunsCount(_, _)
RunsCount(runs, sel) ==
    IF runs = <<>> THEN 0
    ELSE (IF Head(runs).el \in sel THEN Head(runs).n ELSE 0) + RunsCount(Tail(runs), sel)

\* the list itself, for a short list
RECURSIVE RunsExpand(_)
RunsExpand(runs) ==
    IF runs = <<>> THEN <<>>
    ELSE Repeat(Head(runs).el, Head(runs).n) \o RunsExpand(Tail(runs))

----------------------------------------------------------------------------
(* Data structures *)

Card(id, title, status, summary, details, recommendation) ==
    [id |-> id, title |-> title, status |-> status, summary |-> summary,
     details |-> details, recommendation |-> recommendation]

Report(u, cs) == [url |-> u, cards |-> cs]

----------------------------------------------------------------------------
(* Helpers *)

\* n / d * 100 as the exact fraction <<numerator, denominator>>; 0.0 is <<0, 1>>.
\* The double the code computes is on the same side of 70, 90 and 95 as this
\* fraction for every 0 <= n <= d below 10^13.
percent(n, d) == IF d # 0 THEN <<n * 100, d>> ELSE <<0, 1>>

\* pct >= t, for an integer t
PctGE(pct, t) == pct[1] >= t * pct[2]

GenericTexts ==
    { <<"c","l","i","c","k"," ","h","e","r","e">>,
      <<"h","e","r","e">>,
      <<"m","o","r","e">>,
      <<"l","i","n","k">>,
      <<"l","e","a","r","n"," ","m","o","r","e">>,
      <<"r","e","a","d"," ","m","o","r","e">> }

\* the test without .lower()
has_meaningful_text_cs(text) ==
    LET stripped == Strip(text)
    IN  IF stripped = <<>> THEN FALSE
        ELSE stripped \notin GenericTexts /\ Len(stripped) >= 3

has_meaningful_text(text) ==
    LET stripped == Lower(Strip(text))
    IN  IF stripped = <<>> THEN FALSE
        ELSE stripped \notin GenericTexts /\ Len(stripped) >= 3

JumpWarning(pos, prev, lvl) == F("Heading jump at position {}: h{} -> h{}", <<pos, prev, lvl>>, <<>>)

\* the warnings heading_level_ok appends from the k-th level on (position = index + 1)
RECURSIVE JumpWarningsFrom(_, _)
JumpWarningsFrom(levels, k) ==
    IF k > Len(levels) THEN <<>>
    ELSE (IF k > 1 /\ levels[k] - levels[k - 1] > 1
          THEN <<JumpWarning(k, levels[k - 1], levels[k])>>
          ELSE <<>>) \o JumpWarningsFrom(levels, k + 1)

heading_level_ok(levels) ==
    LET warnings == JumpWarningsFrom(levels, 1)
    IN  [ok |-> warnings = <<>>, warnings |-> warnings]

\* the parent walk of find_label_for_input over the chain of ancestors' tag names
RECURSIVE HasLabelAncestor(_)
HasLabelAncestor(ancestors) ==
    IF ancestors = <<>> THEN FALSE
    ELSE IF Head(ancestors) = "label" THEN TRUE
    ELSE HasLabelAncestor(Tail(ancestors))

find_label_for_input(sp, input_el) ==
    LET el_id == input_el.id
    IN  IF el_id # None /\ el_id[1] # "" /\ el_id[1] \in sp.label_fors THEN TRUE
        ELSE HasLabelAncestor(input_el.ancestors)

----------------------------------------------------------------------------
(* Checks *)

TitleShown == 80
HeadingTextShown == 80
HrefShown == 50
LinkScanCap == 500
PoorExamplesShown == 5
HeadingsShown == 3

check_page_title(sp) ==
    LET title == IF sp.title # None THEN Strip(sp.title[1]) ELSE <<>>
    IN  IF title # <<>>
        THEN Card("title", S("Page has a descriptive <title>"), "good",
                  S("The page has a title element."),
                  <<F("Title: ``{}''", <<>>, Take(title, TitleShown))>>, None)
        ELSE Card("title", S("Missing <title>"), "fail",
                  S("No <title> element found."), <<>>,
                  Some(S("Add a clear, concise <title> describing the page.")))

check_html_lang(sp) ==
    LET lang == IF sp.html_lang # None THEN Strip(sp.html_lang[1]) ELSE <<>>
    IN  IF lang # <<>>
        THEN Card("lang", S("Document language is declared"), "good",
                  F("html[lang='{}'] is set.", <<>>, lang), <<>>, None)
        ELSE Card("lang", S("Missing document language"), "warn",
                  S("html[lang] is not set."), <<>>,
                  Some(S("Add a language code to <html lang=\"en\"> (or appropriate).")))

\* thresholds of check_images_alt and check_form_labels
StrictGood == 95
StrictWarn == 70
\* thresholds of check_links_text
LinksGood == 90
LinksWarn == 70

\* the test with the value of alt left out of it: i.has_attr("alt")
HasAltAttr(i) == i.alt # None

\* i.has_attr("alt") and str(i.get("alt")).strip() != ""
HasNonEmptyAlt(i) == i.alt # None /\ Strip(i.alt[1]) # <<>>

\* i.has_attr("alt") and str(i.get("alt")).strip() == ""
HasEmptyAlt(i) == i.alt # None /\ Strip(i.alt[1]) = <<>>

check_images_alt(sp, base_url) ==
    LET imgs == sp.imgs
        total == RunsLen(imgs)
        with_alt == RunsCount(imgs, {i \in RunsElems(imgs) : HasNonEmptyAlt(i)})
        empty_alt == RunsCount(imgs, {i \in RunsElems(imgs) : HasEmptyAlt(i)})
        without_alt == total - with_alt - empty_alt
        pct == percent(with_alt, total)
        status == IF PctGE(pct, StrictGood) THEN "good"
                  ELSE IF PctGE(pct, StrictWarn) THEN "warn" ELSE "fail"
    IN  IF total = 0
        THEN Card("img-alt", S("Images have alt text"), "good", S("No images found."), <<>>, None)
        ELSE Card("img-alt", S("Images have alt text"), status,
                  S("Checked for non-empty alt attributes on <img>."),
                  << F("Images total: {}", <<total>>, <<>>),
                     F("With non-empty alt: {} ({:.0f}%)", <<with_alt>> \o pct, <<>>),
                     F("With empty alt: {}", <<empty_alt>>, <<>>),
                     F("Missing alt: {}", <<without_alt>>, <<>>) >>,
                  Some(S("Ensure informative images have meaningful alt; decorative images may use empty alt (alt=\"\").")))

Ellipsis == "..."

\* the entry the loop of check_links_text appends to poor_examples for link a
PoorSample(a) ==
    LET href == IF a.href # None THEN a.href[1] ELSE <<>>
        sample == IF a.text # <<>> THEN a.text ELSE Take(href, HrefShown) \o <<Ellipsis>>
    IN  <<"``">> \o sample \o <<"''">>

\* ", ".join(xs)
RECURSIVE Join(_)
Join(xs) ==
    IF xs = <<>> THEN <<>>
    ELSE IF Len(xs) = 1 THEN xs[1]
    ELSE xs[1] \o <<",", " ">> \o Join(Tail(xs))

check_links_text(sp) ==
    LET links == sp.links
        total == RunsLen(links)
        scanned == RunsTake(links, LinkScanCap)
        good == RunsCount(scanned, {a \in RunsElems(scanned) : has_meaningful_text(a.text)})
        poor == SelectSeq(scanned, LAMBDA r : ~has_meaningful_text(r.el.text))
        poor_examples == [k \in 1..Len(poor) |-> Run(PoorSample(poor[k].el), poor[k].n)]
        shown == RunsExpand(RunsTake(poor_examples, PoorExamplesShown))
        pct == percent(good, total)
        status == IF PctGE(pct, LinksGood) THEN "good"
                  ELSE IF PctGE(pct, LinksWarn) THEN "warn" ELSE "fail"
    IN  IF total = 0
        THEN Card("link-text", S("Links have meaningful text"), "warn", S("No links found."), <<>>, None)
        ELSE Card("link-text", S("Links have meaningful text"), status,
                  S("Checked link text for clarity."),
                  << F("Links total: {}", <<total>>, <<>>),
                     F("Meaningful text: {} ({:.0f}%)", <<good>> \o pct, <<>>) >>
                  \o (IF shown # <<>>
                      THEN <<F("Examples needing improvement: {}", <<>>, Join(shown))>>
                      ELSE <<>>),
                  Some(S("Use descriptive link text that makes sense out of context (avoid ``click here'' or bare URLs).")))

\* the headings collected by one find_all over h1..h6, in document order
CollectHeadingsInDocumentOrder(sp, level) ==
    [k \in 1..Len(sp.headings) |->
        [level |-> sp.headings[k].level, text |-> Take(sp.headings[k].text, HeadingTextShown)]]

\* for level in range(1, 7): for h in soup.find_all(f"h{level}"): headings.append(...)
RECURSIVE CollectHeadings(_, _)
CollectHeadings(sp, level) ==
    IF level > 6 THEN <<>>
    ELSE LET found == SelectSeq(sp.headings, LAMBDA h : h.level = level)
         IN  [k \in 1..Len(found) |->
                 [level |-> level, text |-> Take(found[k].text, HeadingTextShown)]]
             \o CollectHeadings(sp, level + 1)

\* the status with the h1 count left out of it
HeadingsStatusJumpsOnly(ok, h1_count) == IF ok THEN "good" ELSE "warn"

\* status = "good" if ok else "warn", then "warn" if h1_count == 0 or h1_count > 1
HeadingsStatus(ok, h1_count) ==
    LET status0 == IF ok THEN "good" ELSE "warn"
    IN  IF h1_count = 0 THEN "warn"
        ELSE IF h1_count > 1 THEN "warn"
        ELSE status0

check_headings(sp) ==
    LET headings == CollectHeadings(sp, 1)
        levels == [k \in 1..Len(headings) |-> headings[k].level]
        r == heading_level_ok(levels)
        first == Take(headings, HeadingsShown)
        h1_count == Cardinality({k \in 1..Len(levels) : levels[k] = 1})
        status == HeadingsStatus(r.ok, h1_count)
        warnings == r.warnings \o
            (IF h1_count = 0 THEN <<S("No h1 present.")>>
             ELSE IF h1_count > 1
             THEN <<F("{} h1 headings found; usually only one is recommended.", <<h1_count>>, <<>>)>>
             ELSE <<>>)
        details == <<F("{} headings found. First 3:", <<Len(headings)>>, <<>>)>>
                   \o [k \in 1..Len(first) |-> F("h{}: ``{}''", <<first[k].level>>, first[k].text)]
                   \o warnings
        rec == IF ~r.ok
               THEN Some(S("Avoid skipping levels (e.g., h1 -> h3). Nest sections in order."))
               ELSE None
    IN  IF levels = <<>>
        THEN Card("headings", S("Heading structure"), "warn", S("No headings (h1-h6) found."), <<>>,
                  Some(S("Use headings to structure content; start with a single h1.")))
        ELSE Card("headings", S("Heading structure"), status,
                  S("Checked heading order and presence of h1."), details, rec)

\* the list with nothing excluded
AllInputs(found) == found

\* inputs = [i for i in inputs if i.get("type") != "hidden"]
VisibleInputs(found) == SelectSeq(found, LAMBDA i : i.type # Some("hidden"))

check_form_labels(sp) ==
    LET inputs == VisibleInputs(sp.controls)
        labeled == Cardinality({k \in 1..Len(inputs) : find_label_for_input(sp, inputs[k])})
        pct == percent(labeled, Len(inputs))
        status == IF PctGE(pct, StrictGood) THEN "good"
                  ELSE IF PctGE(pct, StrictWarn) THEN "warn" ELSE "fail"
    IN  IF inputs = <<>>
        THEN Card("form-labels", S("Form controls have labels"), "warn",
                  S("No form controls found."), <<>>, None)
        ELSE Card("form-labels", S("Form controls have labels"), status,
                  S("Checked whether inputs/selects/textareas have labels."),
                  << F("Form controls: {}", <<Len(inputs)>>, <<>>),
                     F("Labeled: {} ({:.0f}%)", <<labeled>> \o pct, <<>>) >>,
                  Some(S("Associate each control with a <label for=\"id\"> or wrap the input in a <label>.")))

check_meta_viewport(sp) ==
    IF sp.viewport # None
    THEN Card("viewport", S("Mobile viewport set"), "good", S("Meta viewport present."),
              <<S(sp.viewport[1])>>, None)
    ELSE Card("viewport", S("Missing mobile viewport"), "warn", S("No meta viewport tag found."), <<>>,
              Some(S("Add <meta name=\"viewport\" content=\"width=device-width, initial-scale=1\"> for better mobile access.")))

----------------------------------------------------------------------------
(* Runner *)

checks == << "check_page_title", "check_html_lang", "check_images_alt", "check_links_text",
             "check_headings", "check_form_labels", "check_meta_viewport" >>

\* fn(soup, url) for check_images_alt, fn(soup) for the others
Call(fn, sp, u) ==
    CASE fn = "check_page_title"    -> check_page_title(sp)
      [] fn = "check_html_lang"     -> check_html_lang(sp)
      [] fn = "check_images_alt"    -> check_images_alt(sp, u)
      [] fn = "check_links_text"    -> check_links_text(sp)
      [] fn = "check_headings"      -> check_headings(sp)
      [] fn = "check_form_labels"   -> check_form_labels(sp)
      [] fn = "check_meta_viewport" -> check_meta_viewport(sp)

\* the Card of the except branch with a status of its own
ErrorCardStatusError(fn, e) ==
    Card(fn, F("{} (error)", <<>>, <<fn>>), "error", S("Checker failed to run."),
         <<S(e)>>, Some(S("Try again or simplify the page for V1.")))

\* the Card of the except branch; e is repr(e)
ErrorCard(fn, e) ==
    Card(fn, F("{} (error)", <<>>, <<fn>>), "warn", S("Checker failed to run."),
         <<S(e)>>, Some(S("Try again or simplify the page for V1.")))

\* one pass of the loop body with the except branch leaving `cards` alone
loop_body_swallow(cs, fn, sp, u, exc) ==
    IF exc = None THEN Append(cs, Call(fn, sp, u)) ELSE cs

\* one pass of the loop body: try: cards.append(fn(...)) except Exception as e: cards.append(Card(...))
loop_body(cs, fn, sp, u, exc) ==
    IF exc = None THEN Append(cs, Call(fn, sp, u)) ELSE Append(cs, ErrorCard(fn, exc[1]))

\* the loop with an except branch that ends the run after its Card
LoopReturningOnError ==
    /\ pc = "loop"
    /\ idx < Len(checks)
    /\ idx' = idx + 1
    /\ cards' = loop_body(cards, checks[idx + 1], soup, url, raises[idx + 1])
    /\ IF raises[idx + 1] = None
       THEN pc' = pc /\ report' = report
       ELSE pc' = "done" /\ report' = Some(Report(url, cards'))
    /\ UNCHANGED <<url, soup, raises, arg, ret, rendered>>

\* for fn in tqdm(checks, ...): one iteration
Loop ==
    /\ pc = "loop"
    /\ idx < Len(checks)
    /\ idx' = idx + 1
    /\ cards' = loop_body(cards, checks[idx + 1], soup, url, raises[idx + 1])
    /\ UNCHANGED <<url, soup, raises, pc, report, arg, ret, rendered>>

\* return Report(url=url, cards=cards)
Return ==
    /\ pc = "loop"
    /\ idx = Len(checks)
    /\ report' = Some(Report(url, cards))
    /\ pc' = "done"
    /\ UNCHANGED <<url, soup, raises, idx, cards, arg, ret, rendered>>

----------------------------------------------------------------------------
(* Documents *)

Home == <<"H","o","m","e">>

\* the tree of a page with a title, a language and nothing else
BaseSoup ==
    [ title |-> Some(Home), html_lang |-> Some(<<"e","n">>),
      imgs |-> <<>>, links |-> <<>>, headings |-> <<>>,
      controls |-> <<>>, label_fors |-> {}, viewport |-> None ]

Img(alt) == [alt |-> alt]
Link(text, href) == [text |-> text, href |-> href]
Heading(level, text) == [level |-> level, text |-> text]
Control(name, type, id, aria_label, aria_labelledby, ancestors) ==
    [name |-> name, type |-> type, id |-> id, aria_label |-> aria_label,
     aria_labelledby |-> aria_labelledby, ancestors |-> ancestors]

Report1 == <<"D","o","w","n","l","o","a","d"," ","a","n","n","u","a","l"," ","r","e","p","o","r","t">>
ClickHere == <<"C","l","i","c","k"," ","h","e","r","e">>
HrefA == <<"/","a">>

\* repr(e) of the exceptions a check may raise
Exceptions == {"AttributeError(\"'NoneType' object has no attribute 'strip'\")", "RecursionError('maximum recursion depth exceeded')"}

Urls == {"https://example.com"}

NoRaise == [k \in 1..Len(checks) |-> None]

QuietVars == /\ arg = None
             /\ ret = None
             /\ rendered = <<>>

AnalyzeSoups ==
    { [BaseSoup EXCEPT !.title = t, !.links = l, !.headings = h, !.controls = c]
        : t \in {None, Some(Home)},
          l \in {<<>>, <<Run(Link(Report1, Some(HrefA)), 1)>>},
          h \in {<<>>, <<Heading(2, Home)>>},
          c \in {<<>>, <<Control("input", None, None, None, None, <<"form", "body", "html">>)>>} }

Init ==
    /\ url \in Urls
    /\ soup \in AnalyzeSoups
    /\ raises \in [1..Len(checks) -> {None} \cup {Some(e) : e \in Exceptions}]
    /\ pc = "loop"
    /\ idx = 0
    /\ cards = <<>>
    /\ report = None
    /\ QuietVars

Next == Loop \/ Return

Spec == Init /\ [][Next]_vars

----------------------------------------------------------------------------
(* The checks and helpers called on their own, over families of documents *)

MaxImgs == 20
MaxLinkRuns == 3
MaxHeadings == 4
MaxControls == 2
MaxTextLen == 4

\* the alt attribute: absent, empty, blank, a text
AltValues == << None, Some(<<>>), Some(<<" ">>), Some(<<"c","a","t">>) >>

\* every list of at most MaxImgs images, up to the order of the images
ImgLists ==
    { [k \in 1..Len(AltValues) |-> Run(Img(AltValues[k]), c[k])]
        : c \in { d \in [1..Len(AltValues) -> 0..MaxImgs] : d[1] + d[2] + d[3] + d[4] <= MaxImgs } }

LongHref == Repeat("x", HrefShown + 10)

LinkKinds ==
    { Link(Report1, Some(HrefA)), Link(ClickHere, Some(HrefA)),
      Link(<<>>, Some(LongHref)), Link(<<>>, None) }

RunLens == {1, 3, 6, LinkScanCap}

SeqsUpTo(set, n) == UNION { [1..m -> set] : m \in 0..n }

LinkLists == SeqsUpTo({Run(a, n) : a \in LinkKinds, n \in RunLens}, MaxLinkRuns)

Digits == <<"1","2","3","4","5","6","7","8","9">>

\* documents whose k-th heading, in document order, has level lv[k]
HeadingLists ==
    { [k \in 1..Len(lv) |-> Heading(lv[k], <<"S", Digits[k]>>)] : lv \in SeqsUpTo(1..6, MaxHeadings) }

ControlKinds ==
    { Control(name, type, id, aria[1], aria[2], anc)
        : name \in {"input", "select"},
          type \in {None, Some("hidden")},
          id \in {None, Some("a")},
          aria \in { <<None, None>>, <<Some("Email"), None>>, <<None, Some("lbl")>> },
          anc \in { <<"form", "body", "html">>, <<"span", "label", "form", "body", "html">> } }

ControlLists == SeqsUpTo(ControlKinds, MaxControls)

TextAlphabet == {" ", "e", "h", "r", "H", "E"}

CaseVariants(t) ==
    { [k \in 1..Len(t) |-> IF k \in m THEN UpperChar(t[k]) ELSE t[k]] : m \in SUBSET (1..Len(t)) }

Paddings == { <<>>, <<" ">>, <<"\n", " ">> }

Texts ==
    SeqsUpTo(TextAlphabet, MaxTextLen)
    \cup { pre \o v \o post
             : pre \in Paddings, post \in Paddings,
               v \in UNION { CaseVariants(g) : g \in GenericTexts } }
    \cup { v \o <<"s">> : v \in GenericTexts }
    \cup { Report1, ClickHere, Home }

InitCall ==
    /\ url \in Urls
    /\ raises = NoRaise
    /\ pc = "call"
    /\ idx = 0
    /\ cards = <<>>
    /\ report = None

CallCheck(fn) ==
    /\ pc = "call"
    /\ cards' = <<Call(fn, soup, url)>>
    /\ pc' = "done"
    /\ UNCHANGED <<url, soup, raises, idx, report, arg, ret, rendered>>

InitImages == InitCall /\ QuietVars /\ soup \in {[BaseSoup EXCEPT !.imgs = x] : x \in ImgLists}
CallImagesAlt == CallCheck("check_images_alt")
SpecImages == InitImages /\ [][CallImagesAlt]_vars

InitLinks == InitCall /\ QuietVars /\ soup \in {[BaseSoup EXCEPT !.links = x] : x \in LinkLists}
CallLinksText == CallCheck("check_links_text")
SpecLinks == InitLinks /\ [][CallLinksText]_vars

InitHeadings == InitCall /\ QuietVars /\ soup \in {[BaseSoup EXCEPT !.headings = x] : x \in HeadingLists}
CallHeadings == CallCheck("check_headings")
SpecHeadings == InitHeadings /\ [][CallHeadings]_vars

InitForms ==
    /\ InitCall
    /\ QuietVars
    /\ soup \in {[BaseSoup EXCEPT !.controls = x, !.label_fors = l] : x \in ControlLists, l \in {{}, {"a"}}}
CallFormLabels == CallCheck("check_form_labels")
SpecForms == InitForms /\ [][CallFormLabels]_vars

InitText ==
    /\ InitCall
    /\ soup = BaseSoup
    /\ arg \in {Some(t) : t \in Texts}
    /\ ret = None
    /\ rendered = <<>>
CallHasMeaningfulText ==
    /\ pc = "call"
    /\ ret' = Some(has_meaningful_text(arg[1]))
    /\ pc' = "done"
    /\ UNCHANGED <<url, soup, raises, idx, cards, report, arg, rendered>>
SpecText == InitText /\ [][CallHasMeaningfulText]_vars

----------------------------------------------------------------------------
(* Properties *)

\* the registration order, by the id each check gives its Finding
FindingIds == << "title", "lang", "img-alt", "link-text", "headings", "form-labels", "viewport" >>

Done == pc = "done"
Returned == Done /\ report # None
TheCard == cards[1]
NonEmptyRec(c) == c.recommendation # None /\ c.recommendation[1] # S("")

\* C1: analyze returns a Report with exactly one Finding per registered check (7),
\* the i-th one produced for the i-th check of the registration order, whichever
\* checks return and whichever raise.
C1_OnePerCheckInOrder ==
    Done =>
        /\ report # None
        /\ Len(report[1].cards) = Len(FindingIds)
        /\ \A k \in 1..Len(report[1].cards) :
              k <= Len(checks) /\ report[1].cards[k].id \in {FindingIds[k], checks[k]}

C1_Witness ==
    /\ Returned
    /\ raises[2] # None /\ raises[4] # None /\ raises[3] = None /\ raises[7] = None
    /\ Len(report[1].cards) = 7
    /\ report[1].cards[3].id = "img-alt"

\* C2: the Finding substituted for a check that raised has status warn, the id the
\* check's own Finding carries, summary "Checker failed to run", the failure's
\* description as detail and a non-empty recommendation.
C2_ErrorFindingCarriesCheckId ==
    \A k \in 1..Len(cards) :
        (k <= Len(checks) /\ raises[k] # None) =>
            /\ cards[k].status = "warn"
            /\ cards[k].id = FindingIds[k]
            /\ cards[k].summary \in {S("Checker failed to run"), S("Checker failed to run.")}
            /\ cards[k].details = <<S(raises[k][1])>>
            /\ NonEmptyRec(cards[k])

\* the Findings of a run of the same document in which no check raises
NoFailureFindings == [k \in 1..Len(checks) |-> Call(checks[k], soup, url)]

\* C3: a check that raises never ends the run: the Report still holds a Finding for
\* every check after it, and each check that did not raise has the Finding it has
\* in the run of the same document in which no check raises.
C3_FailureDoesNotAbort ==
    Done =>
        /\ report # None
        /\ \A k \in 1..Len(checks) :
              /\ Len(report[1].cards) >= k
              /\ report[1].cards[k].id \in {FindingIds[k], checks[k]}
              /\ raises[k] = None => report[1].cards[k] = NoFailureFindings[k]

C3_Witness ==
    /\ Returned
    /\ raises[1] # None /\ raises[6] # None
    /\ raises[5] = None /\ raises[7] = None
    /\ Len(report[1].cards) = 7
    /\ report[1].cards[5] = check_headings(soup)
    /\ report[1].cards[7] = check_meta_viewport(soup)

\* C10: every Finding with status warn or fail carries a non-empty recommendation.
C10_RecommendationWhenNotGood ==
    \A k \in 1..Len(cards) :
        cards[k].status \in {"warn", "fail"} => NonEmptyRec(cards[k])

\* the images of the document by kind of alt (see AltValues)
ImgTotal == RunsLen(soup.imgs)
ImgNonEmpty == soup.imgs[4].n

\* C4: the image-alt status is good with no image; otherwise good if
\* nonEmpty*100 >= 95*total, warn if nonEmpty*100 >= 70*total, fail otherwise, where
\* images with an empty (or blank) alt and images without alt are not non-empty.
C4_ImageAltStatus ==
    Done =>
        TheCard.status =
            IF ImgTotal = 0 THEN "good"
            ELSE IF ImgNonEmpty * 100 >= 95 * ImgTotal THEN "good"
            ELSE IF ImgNonEmpty * 100 >= 70 * ImgTotal THEN "warn"
            ELSE "fail"

C4_Witness ==
    /\ Done
    /\ ImgTotal = 10 /\ ImgNonEmpty = 9 /\ soup.imgs[2].n = 1
    /\ TheCard.id = "img-alt" /\ TheCard.status = "warn"

\* the heading levels in document order
DocLevels == [k \in 1..Len(soup.headings) |-> soup.headings[k].level]
JumpFmt == "Heading jump at position {}: h{} -> h{}"

\* C5: the level-jump rule is applied to the levels in document order: every pair of
\* consecutive headings of the document with level(next) - level(previous) > 1 gives
\* status warn and a jump warning for that pair and position in the details, and a
\* document without such a pair has no jump warning.
C5_JumpsInDocumentOrder ==
    Done =>
        /\ \A k \in 2..Len(DocLevels) :
              DocLevels[k] - DocLevels[k - 1] > 1 =>
                  /\ TheCard.status = "warn"
                  /\ \E d \in 1..Len(TheCard.details) :
                        /\ TheCard.details[d].fmt = JumpFmt
                        /\ TheCard.details[d].nums = <<k, DocLevels[k - 1], DocLevels[k]>>
        /\ (\A k \in 2..Len(DocLevels) : DocLevels[k] - DocLevels[k - 1] <= 1) =>
              \A d \in 1..Len(TheCard.details) : TheCard.details[d].fmt # JumpFmt

\* the sequence of levels the check hands to the level-jump rule
WalkedLevels == LET hs == CollectHeadings(soup, 1) IN [k \in 1..Len(hs) |-> hs[k].level]
JumpsOf(lv) == {k \in 2..Len(lv) : lv[k] - lv[k - 1] > 1}
H1Count == Cardinality({k \in 1..Len(DocLevels) : DocLevels[k] = 1})
HasDetail(c, fmt) == \E d \in 1..Len(c.details) : c.details[d].fmt = fmt

Visible == SelectSeq(soup.controls, LAMBDA c : c.type # Some("hidden"))
LabeledByRules(c) ==
    \/ c.aria_label # None /\ c.aria_label[1] # ""
    \/ c.aria_labelledby # None
    \/ c.id # None /\ c.id[1] \in soup.label_fors
    \/ \E k \in 1..Len(c.ancestors) : c.ancestors[k] = "label"
LabeledCount == Cardinality({k \in 1..Len(Visible) : LabeledByRules(Visible[k])})

\* C7: a control counts as labeled if it has a non-empty aria-label, or
\* aria-labelledby, or an id some label[for=id] matches, or a label ancestor; the
\* count of these is the one the Finding reports and its status rests on.
C7_LabeledByAnyRule ==
    (Done /\ Len(Visible) > 0) =>
        /\ TheCard.details[2].nums[1] = LabeledCount
        /\ TheCard.status =
              IF LabeledCount * 100 >= 95 * Len(Visible) THEN "good"
              ELSE IF LabeledCount * 100 >= 70 * Len(Visible) THEN "warn"
              ELSE "fail"

GenericPhrases ==
    { <<"c","l","i","c","k"," ","h","e","r","e">>, <<"h","e","r","e">>, <<"m","o","r","e">>,
      <<"l","i","n","k">>, <<"l","e","a","r","n"," ","m","o","r","e">>,
      <<"r","e","a","d"," ","m","o","r","e">> }
EqualIgnoringCase(a, b) ==
    /\ Len(a) = Len(b)
    /\ \A k \in 1..Len(a) : UpperChar(a[k]) = UpperChar(b[k])

C9_LinkStatusOverAllLinks ==
    Done =>
        LET total == RunsLen(soup.links)
            meaningful == RunsCount(soup.links,
                              {a \in RunsElems(soup.links) : has_meaningful_text(a.text)})
        IN  TheCard.status =
                IF total = 0 THEN "warn"
                ELSE IF meaningful * 100 >= 90 * total THEN "good"
                ELSE IF meaningful * 100 >= 70 * total THEN "warn"
                ELSE "fail"


Statuses == {"good", "warn", "fail"}

\* C11: in every Report analyze returns, whichever checks returned and whichever
\* raised, every Finding's status is good, warn or fail.
C11_StatusEnumerated ==
    /\ \A k \in 1..Len(cards) : cards[k].status \in Statuses
    /\ report # None => \A k \in 1..Len(report[1].cards) : report[1].cards[k].status \in Statuses

C11_Witness ==
    /\ Returned
    /\ raises[1] # None /\ raises[3] = None /\ raises[4] = None
    /\ {report[1].cards[k].status : k \in 1..Len(report[1].cards)} = Statuses

----------------------------------------------------------------------------
(* Card and Report methods, and the calls a caller makes on the returned Report *)

\* Card.traffic: the glyph of the status, by name
traffic(c) ==
    CASE c.status = "good" -> "green circle"
      [] c.status = "warn" -> "yellow circle"
      [] c.status = "fail" -> "red circle"
      [] OTHER -> "white circle"

\* str.upper() of a status
StatusUpper(st) ==
    CASE st = "good" -> "GOOD"
      [] st = "warn" -> "WARN"
      [] st = "fail" -> "FAIL"
      [] st = "error" -> "ERROR"

\* a built str as the arguments of the f-string it is interpolated into
Sub(f) == <<f.fmt>> \o f.text

\* Card.to_markdown: the lines it joins
card_to_markdown(c) ==
    << F("### {} {}", c.title.nums, <<traffic(c)>> \o Sub(c.title)),
       F("**Status:** {}", <<>>, <<StatusUpper(c.status)>>),
       F("**Summary:** {}", c.summary.nums, Sub(c.summary)) >>
    \o (IF c.details # <<>>
        THEN <<S("**Details:**")>>
             \o [k \in 1..Len(c.details) |-> F("- {}", c.details[k].nums, Sub(c.details[k]))]
        ELSE <<>>)
    \o (IF c.recommendation # None /\ c.recommendation[1] # S("")
        THEN <<F("**Recommendation:** {}", c.recommendation[1].nums, Sub(c.recommendation[1]))>>
        ELSE <<>>)

\* sum(1 for c in cards if c.status == st)
RECURSIVE CountStatus(_, _)
CountStatus(cs, st) ==
    IF cs = <<>> THEN 0
    ELSE (IF Head(cs).status = st THEN 1 ELSE 0) + CountStatus(Tail(cs), st)

\* the tally with the warn count taken under another spelling of the status
score_other_spelling(r) ==
    << CountStatus(r.cards, "good"), CountStatus(r.cards, "warning"), CountStatus(r.cards, "fail") >>

\* Report.score
score(r) ==
    << CountStatus(r.cards, "good"), CountStatus(r.cards, "warn"), CountStatus(r.cards, "fail") >>

\* a dict of the Card that leaves out a recommendation of None
asdict_without_none(c) ==
    IF c.recommendation = None
    THEN [id |-> c.id, title |-> c.title, status |-> c.status, summary |-> c.summary,
          details |-> c.details]
    ELSE c

\* dataclasses.asdict(c): a new dict of the six fields, the details list copied
asdict(c) ==
    [id |-> c.id, title |-> c.title, status |-> c.status, summary |-> c.summary,
     details |-> [k \in 1..Len(c.details) |-> c.details[k]],
     recommendation |-> c.recommendation]

\* Report.to_json
to_json(r) == [url |-> r.url, cards |-> [k \in 1..Len(r.cards) |-> asdict(r.cards[k])]]

\* body of Report.to_markdown: each Card's lines followed by an empty line
RECURSIVE MarkdownBody(_)
MarkdownBody(cs) ==
    IF cs = <<>> THEN <<>>
    ELSE card_to_markdown(Head(cs)) \o <<S("")>> \o MarkdownBody(Tail(cs))

\* Report.to_markdown: the lines it joins
to_markdown(r) ==
    LET t == score(r)
    IN  << S("# AccessCheck - Accessibility Analyzer"),
           F("**URL:** {}", <<>>, <<r.url>>),
           F("**Summary:** green {}  yellow {}  red {}", t, <<>>),
           S(""), S("---"), S("") >>
        \o MarkdownBody(r.cards)

MaxRenders == 3

\* a call on the Report: its name and what it returned
Rendering(op, out) == [op |-> op, out |-> out]

ToJson ==
    /\ pc = "done"
    /\ Len(rendered) < MaxRenders
    /\ rendered' = Append(rendered, Rendering("to_json", to_json(report[1])))
    /\ UNCHANGED <<url, soup, raises, pc, idx, cards, report, arg, ret>>

ToMarkdown ==
    /\ pc = "done"
    /\ Len(rendered) < MaxRenders
    /\ rendered' = Append(rendered, Rendering("to_markdown", to_markdown(report[1])))
    /\ UNCHANGED <<url, soup, raises, pc, idx, cards, report, arg, ret>>

Score ==
    /\ pc = "done"
    /\ Len(rendered) < MaxRenders
    /\ rendered' = Append(rendered, Rendering("score", score(report[1])))
    /\ UNCHANGED <<url, soup, raises, pc, idx, cards, report, arg, ret>>

\* the runs of analyze in which any subset of the checks raises the same exception
InitRender ==
    /\ url \in Urls
    /\ soup \in AnalyzeSoups
    /\ raises \in [1..Len(checks) -> {None, Some("RecursionError('maximum recursion depth exceeded')")}]
    /\ pc = "loop"
    /\ idx = 0
    /\ cards = <<>>
    /\ report = None
    /\ QuietVars

NextRender == Loop \/ Return \/ ToJson \/ ToMarkdown \/ Score

SpecRender == InitRender /\ [][NextRender]_vars


CardFields == {"id", "title", "status", "summary", "details", "recommendation"}
JsonCalls == {k \in 1..Len(rendered) : rendered[k].op = "to_json"}

C12_Repeatable ==
    /\ Done => report = Some(Report(url, cards))
    /\ \A i \in JsonCalls : \A j \in JsonCalls : rendered[i].out = rendered[j].out
    /\ \A i \in JsonCalls :
          /\ rendered[i].out.url = report[1].url
          /\ Len(rendered[i].out.cards) = Len(report[1].cards)
          /\ \A k \in 1..Len(rendered[i].out.cards) :
                /\ DOMAIN rendered[i].out.cards[k] = CardFields
                /\ rendered[i].out.cards[k] = report[1].cards[k]

\* C12: no sequence of to_json, to_markdown and score calls changes the Report's url
\* or cards, and every to_json call on it returns the same output, which lists the
\* Findings in the Report's order with all six fields.
C12_RenderingIsPure ==
    /\ []C12_Repeatable
    /\ [][report # None => report' = report]_vars

C12_Witness ==
    /\ Len(rendered) = 3
    /\ rendered[1].op = "to_json" /\ rendered[2].op = "to_markdown" /\ rendered[3].op = "to_json"
    /\ raises[2] # None /\ raises[4] = None
    /\ Len(rendered[3].out.cards) = 7
    /\ rendered[3].out.cards[4].recommendation = None

TallyOf(cs) ==
    << Cardinality({k \in 1..Len(cs) : cs[k].status = "good"}),
       Cardinality({k \in 1..Len(cs) : cs[k].status = "warn"}),
       Cardinality({k \in 1..Len(cs) : cs[k].status = "fail"}) >>

\* C15: every score call returns, for good, warn and fail, the number of Findings
\* of the Report with that status at the time of the call; the three counts sum
\* to the number of Findings (7), and the header of to_markdown shows them.
C15_TallyCountsEveryFinding ==
    \A i \in 1..Len(rendered) :
        /\ rendered[i].op = "score" =>
              /\ rendered[i].out = TallyOf(report[1].cards)
              /\ rendered[i].out[1] + rendered[i].out[2] + rendered[i].out[3] = Len(report[1].cards)
              /\ Len(report[1].cards) = Len(FindingIds)
        /\ rendered[i].op = "to_markdown" =>
              /\ rendered[i].out[3].nums = TallyOf(report[1].cards)
              /\ rendered[i].out[3].nums[1] + rendered[i].out[3].nums[2]
                    + rendered[i].out[3].nums[3] = Len(FindingIds)

C15_Witness ==
    /\ Len(rendered) = 2
    /\ rendered[1].op = "score" /\ rendered[2].op = "to_markdown"
    /\ raises[5] # None
    /\ rendered[1].out = <<3, 3, 1>>
    /\ rendered[2].out[3].nums = <<3, 3, 1>>


IsHiddenInput(c) == c.name = "input" /\ c.type = Some("hidden")
WithoutHiddenInputs(sp) ==
    [sp EXCEPT !.controls = SelectSeq(sp.controls, LAMBDA c : ~IsHiddenInput(c))]

\* C13: input elements with type=hidden are left out of the form-label totals: the
\* Finding of a document (control total, labeled count, status) is the Finding of
\* the same document without its hidden inputs, and a document whose only controls
\* are hidden inputs is reported as having no form controls (warn).
C13_HiddenInputsExcluded ==
    Done =>
        /\ TheCard = check_form_labels(WithoutHiddenInputs(soup))
        /\ (\A k \in 1..Len(soup.controls) : IsHiddenInput(soup.controls[k])) =>
              /\ TheCard.status = "warn"
              /\ TheCard.summary = S("No form controls found.")
              /\ TheCard.details = <<>>

C13_Witness ==
    /\ Done
    /\ Len(soup.controls) = 2
    /\ IsHiddenInput(soup.controls[1])
    /\ soup.controls[1].ancestors[1] = "form"
    /\ ~IsHiddenInput(soup.controls[2]) /\ soup.controls[2].type = None
    /\ TheCard.id = "form-labels"
    /\ TheCard.status = "good"
    /\ TheCard.details[1].nums = <<1>>

----------------------------------------------------------------------------
(* Each check, returning or raising, over large documents *)

MaxDetailRuns == 2
MaxDetailControls == 1
MaxRepeats == 4

RECURSIVE RepeatSeq(_, _)
RepeatSeq(p, n) == IF n = 0 THEN <<>> ELSE p \o RepeatSeq(p, n - 1)

\* documents with 2, 4, ... headings whose levels alternate between two values
LongHeadingLists ==
    { RepeatSeq(<<Heading(a, <<"S">>), Heading(b, <<"S">>)>>, n) : a \in 1..6, b \in 1..6, n \in 1..MaxRepeats }

DetailSoups ==
    {[BaseSoup EXCEPT !.links = x]
        : x \in SeqsUpTo({Run(a, n) : a \in LinkKinds, n \in {1, LinkScanCap}}, MaxDetailRuns)}
    \cup {[BaseSoup EXCEPT !.headings = x] : x \in HeadingLists \cup LongHeadingLists}
    \cup {[BaseSoup EXCEPT !.controls = x] : x \in SeqsUpTo(ControlKinds, MaxDetailControls)}
    \cup {[BaseSoup EXCEPT !.imgs = <<Run(Img(a), n), Run(Img(b), m)>>]
            : a \in {None, Some(<<>>)}, b \in {Some(<<"c","a","t">>)}, n \in {0, 1, LinkScanCap}, m \in {0, 1, LinkScanCap}}
    \cup {[BaseSoup EXCEPT !.title = t, !.html_lang = l, !.viewport = v]
            : t \in {None, Some(Repeat("x", TitleShown + 1))}, l \in {None, Some(<<"e","n">>)},
              v \in {None, Some("<meta content=\"width=device-width\" name=\"viewport\"/>")}}

AllRaise == [k \in 1..Len(checks) |-> Some("RecursionError('maximum recursion depth exceeded')")]

InitDetails ==
    /\ url \in Urls
    /\ soup \in DetailSoups
    /\ raises \in {NoRaise, AllRaise}
    /\ pc = "call"
    /\ idx = 0
    /\ cards = <<>>
    /\ report = None
    /\ QuietVars

\* one pass of the loop body of analyze for the k-th check, on its own
CallOne(k) ==
    /\ pc = "call"
    /\ cards' = loop_body(<<>>, checks[k], soup, url, raises[k])
    /\ pc' = "done"
    /\ UNCHANGED <<url, soup, raises, idx, report, arg, ret, rendered>>

CallAnyCheck == \E k \in 1..Len(checks) : CallOne(k)

SpecDetails == InitDetails /\ [][CallAnyCheck]_vars

\* the largest number of detail strings of each check's Finding, and of the
\* Finding substituted when the check raised (whose id is the function's name)
DetailsBound(id) ==
    CASE id = "title" -> 1
      [] id = "lang" -> 0
      [] id = "img-alt" -> 4
      [] id = "link-text" -> 3
      [] id = "headings" -> 7
      [] id = "form-labels" -> 2
      [] id = "viewport" -> 1
      [] OTHER -> 1

\* C14: for each check there is a constant K, whatever the number of images, links,
\* headings, level jumps and form controls of the document, such that its
\* Finding has at most K detail strings.
C14_DetailsBounded ==
    Done => Len(TheCard.details) <= DetailsBound(TheCard.id)

C14_Witness ==
    /\ Done
    /\ Len(soup.headings) = 8
    /\ Cardinality(JumpsOf(DocLevels)) = 4
    /\ TheCard.id = "headings"
    /\ Len(TheCard.details) = 6

====
